---- MODULE Spec2Model ----
(***************************************************************************)
(* Netwalk: puzzle generation (builder.py) and puzzle solving (solver.py)  *)
(* over the grid topology of grid.py and vector2d.py.                      *)
(*                                                                         *)
(* A node (Vector2d) is a pair <<x, y>>.  Python lists are sequences; a    *)
(* Python index i is the sequence index i + 1.  builder.py indexes its     *)
(* Grid objects as two-dimensional containers (nodes[x, y] = ...); they    *)
(* are functions from nodes to values here.                                *)
(***************************************************************************)
EXTENDS Integers, Sequences, FiniteSets, TLC

(***************************************************************************)
(* Bounds of the model.                                                    *)
(***************************************************************************)
\* Builder options: columns * rows <= MaxNodes.
MaxNodes == 9
\* Builder options with wrap = True: columns * rows <= MaxWrapNodes.
MaxWrapNodes == 4
\* Number of walls _create_walls samples.
MaxWalls == 1
\* Number of tiles _rotate samples.
MaxRotated == 2
\* Hand-made puzzles given to the solver: columns * rows <= MaxGivenNodes.
MaxGivenNodes == 3
\* Hand-made puzzles given to the solver: number of walls.
MaxGivenWalls == 1
\* Number of Solver instances constructed from one puzzle.
MaxSolvers == 2
\* The integers given to clamp lie in -MaxInt .. MaxInt.
MaxInt == 12
\* The sequences given to weighted_choice have at most MaxLen elements.
MaxLen == 3
\* The weights given to weighted_choice lie in 0 .. MaxWeight.
MaxWeight == 2
\* The dimensions given to Grid lie in -MaxDim .. MaxDim.
MaxDim == 2

(***************************************************************************)
(* vector2d.py                                                             *)
(***************************************************************************)
\* Direction, in enumeration order (list(Direction)).
DirectionList == <<"right", "up", "left", "down">>

Direction == {"right", "up", "left", "down"}

\* Direction.index
index(d) == CASE d = "right" -> 0 [] d = "up" -> 1 [] d = "left" -> 2 [] d = "down" -> 3

\* Direction.angle
angle(d) == 90 * index(d)

\* Direction.vector
vector(d) ==
    CASE d = "right" -> <<1, 0>>
      [] d = "up" -> <<0, 1>>
      [] d = "left" -> <<-1, 0>>
      [] d = "down" -> <<0, -1>>

\* Direction.create(angle=a): the direction whose angle is a % 360.
create_angle(a) == CHOOSE d \in Direction : angle(d) = a % 360

\* Direction.create(vector=v)
create_vector(v) == CHOOSE d \in Direction : vector(d) = v

\* Direction.rotate(n): n quarter turns counter-clockwise.
rotate(d, n) == create_angle(angle(d) + 90 * n)

\* Direction.__neg__: the reverse direction.
neg(d) == create_vector(<<0 - vector(d)[1], 0 - vector(d)[2]>>)

\* Vector2d.__add__
add(a, b) == <<a[1] + b[1], a[2] + b[2]>>

\* Vector2d.__sub__
sub(a, b) == <<a[1] - b[1], a[2] - b[2]>>

(***************************************************************************)
(* grid.py                                                                 *)
(***************************************************************************)
\* The nodes of a columns x rows grid.
Nodes(columns, rows) == (0 .. columns - 1) \X (0 .. rows - 1)

\* Grid.__iter__: itertools.product(range(columns), range(rows)), x outermost.
GridOrder(columns, rows) ==
    [i \in 1 .. columns * rows |-> <<(i - 1) \div rows, (i - 1) % rows>>]

\* Grid.valid
valid(coordinates, columns, rows, periodic) ==
    \/ periodic
    \/ /\ 0 <= coordinates[1] /\ coordinates[1] < columns
       /\ 0 <= coordinates[2] /\ coordinates[2] < rows

\* Grid.normalize
normalize(coordinates, columns, rows) ==
    <<coordinates[1] % columns, coordinates[2] % rows>>

\* Grid.neighbors: the generator's values in the order it yields them.
neighbors(coordinates, columns, rows, periodic) ==
    LET cand == [i \in 1 .. 4 |-> add(coordinates, vector(DirectionList[i]))]
        kept == SelectSeq(cand, LAMBDA n : periodic \/ valid(n, columns, rows, periodic))
    IN  [i \in 1 .. Len(kept) |->
            IF periodic THEN normalize(kept[i], columns, rows) ELSE kept[i]]

\* The set of values of a sequence.
Range(s) == {s[i] : i \in 1 .. Len(s)}

\* Grid.__init__: the Grid made of the arguments, or the ValueError raised.
\* An argument is a number with its type; a float [type |-> "float",
\* value |-> k] stands for a non-integral number between k and k + 1.
Grid_init(columns, rows, periodic) ==
    IF columns.type # "int" \/ columns.value < 0
    THEN [kind |-> "raised", error |-> "ValueError"]
    ELSE IF rows.type # "int" \/ rows.value < 0
    THEN [kind |-> "raised", error |-> "ValueError"]
    ELSE [kind |-> "Grid", columns |-> columns.value, rows |-> rows.value,
          periodic |-> periodic]

(***************************************************************************)
(* utilities.py                                                            *)
(***************************************************************************)
\* A variant of clamp in which min and max are exchanged:
\* min(smallest, max(n, largest)).
clamp_exchanged(n, smallest, largest) ==
    LET m == IF n > largest THEN n ELSE largest
    IN  IF smallest < m THEN smallest ELSE m

\* clamp
clamp(n, smallest, largest) ==
    LET m == IF n < largest THEN n ELSE largest
    IN  IF smallest > m THEN smallest ELSE m

\* sum(weights)
RECURSIVE sum(_)
sum(weights) == IF weights = << >> THEN 0 ELSE Head(weights) + sum(Tail(weights))

\* The while loop of weighted_choice: returns the final value of index.
RECURSIVE weighted_scan(_, _, _)
weighted_scan(weights, r, i) ==
    IF r >= 0 THEN weighted_scan(weights, r - weights[i + 1], i + 1) ELSE i

\* A variant of random.uniform(0, total) that can return the end point total.
uniform_closed(total) == 0 .. total

\* random.uniform(0, total) for an integer total: a + (b - a) * random() with
\* random() in [0, 1).  In double arithmetic the product stays below total
\* when total > 0, and is 0 when total = 0.  The draw k stands for the real
\* draws in [k, k + 1).
uniform(total) == IF total = 0 THEN {0} ELSE 0 .. total - 1

\* A variant of weighted_choice in which line 38 returns sequence[0].
weighted_choice_first(sequence, weights, r) ==
    IF r = sum(weights)
    THEN sequence[1]
    ELSE sequence[weighted_scan(weights, r, 0)]

\* weighted_choice, for the draw r of random.uniform(0, total).  The weights
\* are integers, so every real draw in [k, k + 1) selects what the draw k
\* selects.
weighted_choice(sequence, weights, r) ==
    IF r = sum(weights)
    THEN sequence[Len(sequence)]
    ELSE sequence[weighted_scan(weights, r, 0)]

(***************************************************************************)
(* builder.py: link types, tiles, walls                                    *)
(***************************************************************************)
Difficulty == {"easy", "medium", "hard"}

LinkType ==
    {"empty", "dead_end", "corner", "straight", "t_intersection", "cross_intersection"}

\* Builder.difficulties
difficulties ==
    [easy |-> [cross_intersection |-> 1, t_intersection |-> 1, corner |-> 4,
               straight |-> 3, dead_end |-> 1, empty |-> 1],
     medium |-> [cross_intersection |-> 0, t_intersection |-> 1, corner |-> 5,
                 straight |-> 2, dead_end |-> 1, empty |-> 1],
     hard |-> [cross_intersection |-> 0, t_intersection |-> 2, corner |-> 5,
               straight |-> 0, dead_end |-> 1, empty |-> 1]]

\* A variant of Tile.__init__ in which line 67 reads
\* entity if entity else EntityType.link.
Tile_default_link(link, orientation, entity) ==
    [link |-> link,
     orientation |-> orientation,
     entity |-> IF entity # "None" THEN entity ELSE "link"]

\* Tile.__init__
Tile(link, orientation, entity) ==
    [link |-> link,
     orientation |-> orientation,
     entity |-> IF entity # "None" THEN entity
                ELSE IF link = "dead_end" THEN "drain" ELSE "link"]

\* Builder.Node.to_tile: the 16-entry table, keyed by the node's edge list.
to_tile(edges) ==
    CASE edges = <<TRUE, TRUE, TRUE, TRUE>> -> Tile("cross_intersection", "right", "None")
      [] edges = <<TRUE, TRUE, TRUE, FALSE>> -> Tile("t_intersection", "right", "None")
      [] edges = <<FALSE, TRUE, TRUE, TRUE>> -> Tile("t_intersection", "up", "None")
      [] edges = <<TRUE, FALSE, TRUE, TRUE>> -> Tile("t_intersection", "left", "None")
      [] edges = <<TRUE, TRUE, FALSE, TRUE>> -> Tile("t_intersection", "down", "None")
      [] edges = <<TRUE, TRUE, FALSE, FALSE>> -> Tile("corner", "right", "None")
      [] edges = <<FALSE, TRUE, TRUE, FALSE>> -> Tile("corner", "up", "None")
      [] edges = <<FALSE, FALSE, TRUE, TRUE>> -> Tile("corner", "left", "None")
      [] edges = <<TRUE, FALSE, FALSE, TRUE>> -> Tile("corner", "down", "None")
      [] edges = <<TRUE, FALSE, TRUE, FALSE>> -> Tile("straight", "right", "None")
      [] edges = <<FALSE, TRUE, FALSE, TRUE>> -> Tile("straight", "up", "None")
      [] edges = <<TRUE, FALSE, FALSE, FALSE>> -> Tile("dead_end", "right", "None")
      [] edges = <<FALSE, TRUE, FALSE, FALSE>> -> Tile("dead_end", "up", "None")
      [] edges = <<FALSE, FALSE, TRUE, FALSE>> -> Tile("dead_end", "left", "None")
      [] edges = <<FALSE, FALSE, FALSE, TRUE>> -> Tile("dead_end", "down", "None")
      [] edges = <<FALSE, FALSE, FALSE, FALSE>> -> Tile("empty", "right", "None")

\* Wall(position, orientation)
Wall(position, orientation) == [position |-> position, orientation |-> orientation]

\* Puzzle.__init__
Puzzle(grid, walls, source, expected_moves, wrap, columns, rows) ==
    [columns |-> columns, rows |-> rows, grid |-> grid, walls |-> walls,
     source |-> source, expected_moves |-> expected_moves, wrap |-> wrap]

\* None, where a tile is expected: the value of a cell of the grid that no
\* tile was assigned to.
NoTile == [link |-> "None", orientation |-> "None", entity |-> "None"]

\* Builder.example: a 5x5 grid of which nine cells are assigned a tile, two
\* walls, the source at (1, 1).
example ==
    LET tiles ==
            (<<0, 2>> :> Tile("dead_end", "down", "None")) @@
            (<<1, 2>> :> Tile("t_intersection", "right", "None")) @@
            (<<2, 2>> :> Tile("corner", "left", "None")) @@
            (<<0, 1>> :> Tile("dead_end", "down", "None")) @@
            (<<1, 1>> :> [Tile("t_intersection", "down", "None") EXCEPT
                              !.entity = "source"]) @@
            (<<2, 1>> :> Tile("straight", "right", "None")) @@
            (<<0, 0>> :> Tile("dead_end", "down", "None")) @@
            (<<1, 0>> :> Tile("corner", "up", "None")) @@
            (<<2, 0>> :> Tile("dead_end", "right", "None"))
    IN  Puzzle([n \in (0 .. 4) \X (0 .. 4) |->
                   IF n \in DOMAIN tiles THEN tiles[n] ELSE NoTile],
               {Wall(<<0, 2>>, "horizontal"), Wall(<<2, 1>>, "vertical")},
               <<1, 1>>, 7, FALSE, 5, 5)

(***************************************************************************)
(* solver.py: connector tables                                             *)
(***************************************************************************)
\* rotate_right(l, n): l[-n:] + l[:-n] with n = n % len(l).
rotate_right(l, n) ==
    [i \in 1 .. Len(l) |-> l[((i - 1 - (n % Len(l))) % Len(l)) + 1]]

\* base_connectors
base_connectors ==
    [empty |-> <<FALSE, FALSE, FALSE, FALSE>>,
     dead_end |-> <<TRUE, FALSE, FALSE, FALSE>>,
     corner |-> <<TRUE, TRUE, FALSE, FALSE>>,
     straight |-> <<TRUE, FALSE, TRUE, FALSE>>,
     t_intersection |-> <<TRUE, TRUE, TRUE, FALSE>>,
     cross_intersection |-> <<TRUE, TRUE, TRUE, TRUE>>]

\* A variant of tile_connectors that rotates the base connectors to the left
\* (rotate_left) where line 98 rotates them to the right.
tile_connectors_left(link_type, d) ==
    rotate_right(base_connectors[link_type], 4 - index(d))

\* tile_connectors[link_type][d]
tile_connectors(link_type, d) == rotate_right(base_connectors[link_type], index(d))


(***************************************************************************)
(* State                                                                   *)
(***************************************************************************)
VARIABLES
    pc,          \* where the program is
    error,       \* the exception that ended the program, "None" if none
    builder,     \* the Builder: columns, rows, difficulty, wrap, _source, _nodes
    visited,     \* _create_tree: visited
    boundary,    \* _create_tree: boundary
    grid,        \* Builder.run: grid, the tiles _create_tree returned
    walls,       \* Builder.run: walls
    puzzle,      \* the Puzzle
    solver,      \* the Solver: columns, rows, source, solutions
    heap,        \* the Solver.State objects: heap[0] holds self.tiles, self.edges
    work_stack,  \* Solver.run: work_stack
    item,        \* Solver.run: item, the work item popped last
    results,     \* what each finished Solver instance recorded
    call         \* a call of a function on its own: op, args and what it returned

vars ==
    <<pc, error, builder, visited, boundary, grid, walls, puzzle, solver, heap,
      work_stack, item, results, call>>

\* A Builder that does not exist (the puzzle was made by hand).
NoBuilder ==
    [columns |-> 0, rows |-> 0, difficulty |-> "None", wrap |-> FALSE,
     source |-> <<0, 0>>, nodes |-> << >>]

\* A Puzzle that does not exist yet.
NoPuzzle == Puzzle(<< >>, {}, <<0, 0>>, 0, FALSE, 0, 0)

\* A Solver that does not exist yet.
NoSolver == [columns |-> 0, rows |-> 0, source |-> <<0, 0>>, solutions |-> << >>]

\* A work item that does not exist.
NoItem == [state |-> 0, work |-> << >>]

\* No function is called on its own.
NoCall == [op |-> "None", args |-> << >>, ret |-> [kind |-> "None"]]

builderVars == <<builder, visited, boundary, grid, walls>>

solverVars == <<solver, heap, work_stack, item, results>>

(***************************************************************************)
(* builder.py: Builder                                                     *)
(***************************************************************************)
\* Options(columns, rows, difficulty, wrap) within the bounds.
OptionsSet ==
    {o \in [columns : 1 .. MaxNodes, rows : 1 .. MaxNodes,
            difficulty : Difficulty, wrap : BOOLEAN] :
        /\ o.columns * o.rows <= MaxNodes
        /\ o.wrap => o.columns * o.rows <= MaxWrapNodes}

\* Builder.__init__
BuilderNew(options) ==
    [columns |-> options.columns, rows |-> options.rows,
     difficulty |-> options.difficulty, wrap |-> options.wrap,
     source |-> <<0, 0>>, nodes |-> << >>]

\* Builder.Edges.__setitem__: the edge list with the edge in a direction set.
set_edge(edges, direction, value) == [edges EXCEPT ![index(direction) + 1] = value]

\* _create_tree, lines 234-240: the moves of one parent, in direction order.
moves_of(parent) ==
    LET cand == [i \in 1 .. 4 |->
                    LET direction == DirectionList[i]
                        c == add(parent, vector(direction))
                        child == IF builder.wrap
                                 THEN <<c[1] % builder.columns, c[2] % builder.rows>>
                                 ELSE c
                    IN  <<parent, child, direction>>]
    IN  SelectSeq(cand, LAMBDA m :
            /\ 0 <= m[2][1] /\ m[2][1] < builder.columns
            /\ 0 <= m[2][2] /\ m[2][2] < builder.rows
            /\ ~visited[m[2]])

\* The nodes of a set in grid order.
InGridOrder(S) ==
    SelectSeq(GridOrder(builder.columns, builder.rows), LAMBDA n : n \in S)

\* The orders in which "for parent in boundary" may visit the set boundary.
\* weighted_choice depends on the order only through the last move, so one
\* order per choice of the parent visited last stands for all of them.
boundary_orders ==
    {InGridOrder(boundary \ {last}) \o <<last>> : last \in boundary}

\* _create_tree, lines 232-240: the list moves for an iteration order.
RECURSIVE moves_in(_)
moves_in(order) ==
    IF order = << >> THEN << >> ELSE moves_of(Head(order)) \o moves_in(Tail(order))

\* _create_tree, lines 243-248: the weight of each move.
weights_of(moves) ==
    [i \in 1 .. Len(moves) |->
        difficulties[builder.difficulty][
            to_tile(set_edge(builder.nodes[moves[i][1]], moves[i][3], TRUE)).link]]

\* A variant of lines 250-254 in which line 252 is left out: the edge is
\* added to the parent only.
apply_move_parent_only(nodes, move) ==
    [nodes EXCEPT ![move[1]] = set_edge(@, move[3], TRUE)]

\* _create_tree, lines 250-254: the tree after the chosen move.
apply_move(nodes, move) ==
    LET parent == move[1]
        child == move[2]
        direction == move[3]
        n1 == [nodes EXCEPT ![parent] = set_edge(@, direction, TRUE)]
    IN  [n1 EXCEPT ![child] = set_edge(@, neg(direction), TRUE)]

\* A variant of next_boundary in which line 254 is left out: the child of the
\* chosen move does not join the boundary.
next_boundary_parents(moves, move) == {moves[i][1] : i \in 1 .. Len(moves)}

\* _create_tree, lines 240, 250 and 254: the next boundary.
next_boundary(moves, move) == {moves[i][1] : i \in 1 .. Len(moves)} \cup {move[2]}

\* Builder.run, line 193, and _create_tree, lines 223-229.
RunBegin ==
    /\ pc = "builder"
    /\ LET source == <<builder.columns \div 2, builder.rows \div 2>>
           N == Nodes(builder.columns, builder.rows)
       IN  /\ builder' = [builder EXCEPT
                  !.source = source,
                  !.nodes = [n \in N |-> <<FALSE, FALSE, FALSE, FALSE>>]]
           /\ visited' = [n \in N |-> n = source]
           /\ boundary' = {source}
    /\ pc' = "tree"
    /\ UNCHANGED <<error, grid, walls, puzzle, solverVars, call>>

\* The moves weighted_choice(moves, weights) may return, over all draws r.
drawn(moves, weights) ==
    {weighted_choice(moves, weights, r) : r \in uniform(sum(weights))}

\* _create_tree, line 249: the moves weighted_choice may return in this
\* iteration.  When some weight is positive the draws select the moves of
\* positive weight, in every order of the list moves.  When every weight is
\* 0 the draw is 0 = total and selects the last move of the list, which
\* depends on the order in which "for parent in boundary" visits the set.
tree_choices ==
    LET moves == moves_in(InGridOrder(boundary))
    IN  IF sum(weights_of(moves)) > 0 THEN drawn(moves, weights_of(moves))
        ELSE {LET m == moves_in(order) IN  weighted_choice(m, weights_of(m), 0) :
                 order \in {o \in boundary_orders : moves_in(o) # << >>}}

\* _create_tree, lines 231-254: one iteration of the loop that adds an edge.
TreeStep ==
    /\ pc = "tree"
    /\ moves_in(InGridOrder(boundary)) # << >>
    /\ \E move \in tree_choices :
          /\ builder' = [builder EXCEPT !.nodes = apply_move(@, move)]
          /\ visited' = [visited EXCEPT ![move[2]] = TRUE]
          /\ boundary' = next_boundary(moves_in(InGridOrder(boundary)), move)
    /\ UNCHANGED <<pc, error, grid, walls, puzzle, solverVars, call>>

\* _create_tree, lines 241-242 and 256-261: no move is left; the nodes become
\* tiles.  The locals visited and boundary end with the call; the difficulty
\* is not read after _create_tree and is dropped with them.
TreeFinish ==
    /\ pc = "tree"
    /\ moves_in(InGridOrder(boundary)) = << >>
    /\ grid' = [n \in Nodes(builder.columns, builder.rows) |->
                  IF n = builder.source
                  THEN [to_tile(builder.nodes[n]) EXCEPT !.entity = "source"]
                  ELSE to_tile(builder.nodes[n])]
    /\ builder' = [builder EXCEPT !.difficulty = "None"]
    /\ visited' = << >>
    /\ boundary' = {}
    /\ pc' = "walls"
    /\ UNCHANGED <<error, walls, puzzle, solverVars, call>>

\* int(random.gauss(mean, rsd * mean)) for a population of n: the mean and the
\* deviation are 0 when n = 0; otherwise the draw may fall below, inside or
\* above the range the caller clamps it to.
gauss_int(n) == IF n = 0 THEN {0} ELSE -1 .. n + 1

\* A variant of lines 271-276 that does not look at the edges of the tree.
wall_candidates_anywhere ==
    {w \in [position : Nodes(builder.columns, builder.rows),
            orientation : {"horizontal", "vertical"}] :
        \/ w.orientation = "horizontal" /\ (builder.wrap \/ w.position[2] # 0)
        \/ w.orientation = "vertical" /\ (builder.wrap \/ w.position[1] # 0)}

\* _create_walls, lines 271-276: all possible walls.
wall_candidates ==
    {w \in [position : Nodes(builder.columns, builder.rows),
            orientation : {"horizontal", "vertical"}] :
        \/ /\ w.orientation = "horizontal"
           /\ builder.wrap \/ w.position[2] # 0
           /\ ~builder.nodes[w.position][index("down") + 1]
        \/ /\ w.orientation = "vertical"
           /\ builder.wrap \/ w.position[1] # 0
           /\ ~builder.nodes[w.position][index("left") + 1]}

\* random.sample(population, count) on a set, which the Python versions before
\* 3.11 accept: the samples, without their order.
sample(population, count) == {S \in SUBSET population : Cardinality(S) = count}

\* _create_walls
CreateWalls ==
    /\ pc = "walls"
    /\ \E count \in {clamp(g, 0, Cardinality(wall_candidates)) :
                        g \in gauss_int(Cardinality(wall_candidates))} :
          /\ count <= MaxWalls
          /\ \E S \in sample(wall_candidates, count) : walls' = S
    /\ pc' = "rotate"
    /\ UNCHANGED <<error, builder, visited, boundary, grid, puzzle, solverVars, call>>

\* _rotate, lines 291-294: the rotatable tiles, named by their nodes.
rotatable ==
    {n \in Nodes(builder.columns, builder.rows) :
        grid[n].link \notin {"cross_intersection", "empty"}}

\* A variant of lines 298-301 in which random.choice draws from range(0, 4).
rotations_from_zero(tile) == IF tile.link = "straight" THEN {1} ELSE 0 .. 3

\* _rotate, lines 298-301: the quarter turns a tile may be rotated by.
rotations(tile) == IF tile.link = "straight" THEN {1} ELSE 1 .. 3

\* _rotate and Builder.run, line 197: a sample of the tiles is rotated and the
\* Puzzle is returned; random.sample raises ValueError when the sample is
\* larger than the population.
Rotate ==
    /\ pc = "rotate"
    /\ \E count \in {clamp(g, 1, Cardinality(rotatable)) :
                        g \in gauss_int(Cardinality(rotatable))} :
          IF count > Cardinality(rotatable)
          THEN /\ pc' = "raised"
               /\ error' = "ValueError"
               /\ UNCHANGED <<grid, puzzle>>
          ELSE /\ count <= MaxRotated
               /\ \E S \in sample(rotatable, count) :
                    \E turns \in [S -> 0 .. 3] :
                       /\ \A n \in S : turns[n] \in rotations(grid[n])
                       /\ grid' = [n \in DOMAIN grid |->
                                     IF n \in S
                                     THEN [grid[n] EXCEPT
                                             !.orientation = rotate(@, turns[n])]
                                     ELSE grid[n]]
                       /\ puzzle' = Puzzle(grid', walls, builder.source, count,
                                           builder.wrap, builder.columns, builder.rows)
               /\ pc' = "built"
               /\ UNCHANGED error
    /\ UNCHANGED <<builder, visited, boundary, walls, solverVars, call>>

\* The soundness scenario: the tiles are still in their as-generated
\* orientation when the Puzzle is made of them.
Unscrambled ==
    /\ pc = "rotate"
    /\ puzzle' = Puzzle(grid, walls, builder.source, 0, builder.wrap,
                        builder.columns, builder.rows)
    /\ pc' = "puzzle"
    /\ UNCHANGED <<error, builderVars, solverVars, call>>

(***************************************************************************)
(* solver.py: Edges                                                        *)
(***************************************************************************)
\* Edges._add_edges: the keys of the dictionary _edges.
edge_keys(columns, rows) ==
    UNION {LET right_neighbor == <<(n[1] + 1) % columns, n[2]>>
               top_neighbor == <<n[1], (n[2] + 1) % rows>>
           IN  {<<n, right_neighbor>>, <<right_neighbor, n>>,
                <<n, top_neighbor>>, <<top_neighbor, n>>} : n \in Nodes(columns, rows)}

\* Edges.__init__ without edges: every edge unknown.
Edges(columns, rows) == [k \in edge_keys(columns, rows) |-> "unknown"]

\* A variant of Edges.__setitem__ in which line 69 is left out: only the
\* entry of (a, b) is written.
setitem_one_way(edges, a, b, value) ==
    [k \in DOMAIN edges \cup {<<a, b>>} |-> IF k = <<a, b>> THEN value ELSE edges[k]]

\* Edges.__setitem__: the dictionary after self[a, b] = value.
setitem(edges, a, b, value) ==
    [k \in DOMAIN edges \cup {<<a, b>>, <<b, a>>} |->
        IF k = <<a, b>> \/ k = <<b, a>> THEN value ELSE edges[k]]

\* A loop of assignments edges[a, b] = value over a list of pairs <<a, b>>.
RECURSIVE setitems(_, _, _)
setitems(edges, pairs, value) ==
    IF pairs = << >> THEN edges
    ELSE setitems(setitem(edges, Head(pairs)[1], Head(pairs)[2], value), Tail(pairs), value)

\* Edges.clone: a copy of the dictionary.
edges_clone(edges) == [k \in DOMAIN edges |-> edges[k]]

(***************************************************************************)
(* solver.py: Solver                                                       *)
(***************************************************************************)
\* Solver.Tile.__init__, lines 142-149: the orientations of a link type.
default_orientations(link) ==
    CASE link = "empty" -> <<"right">>
      [] link = "dead_end" -> DirectionList
      [] link = "corner" -> DirectionList
      [] link = "straight" -> <<"right", "up">>
      [] link = "t_intersection" -> DirectionList
      [] link = "cross_intersection" -> <<"right">>

\* Solver.Tile.__init__: None and the empty list are both false in
\* "if possible_orientations", so both select the defaults; << >> stands for both.
SolverTile(link, possible_orientations) ==
    [link |-> link,
     possible_orientations |->
        IF possible_orientations # << >> THEN possible_orientations
        ELSE default_orientations(link)]

\* Solver.State.__init__
State(tiles, edges) == [tiles |-> tiles, edges |-> edges]

\* Solver.State.clone
clone(state) ==
    State([n \in DOMAIN state.tiles |->
              SolverTile(state.tiles[n].link, state.tiles[n].possible_orientations)],
          edges_clone(state.edges))

\* Solver.WorkItem.__init__: state is the heap address of the State.
WorkItem(state, work) == [state |-> state, work |-> work]

\* The neighbor of a node in a direction, lines 286-287 and 300-301.
child_of(node, d) ==
    LET child == add(node, vector(d))
    IN  <<child[1] % solver.columns, child[2] % solver.rows>>

\* Solver._valid_orientation
valid_orientation(node, orientation, state) ==
    LET connectors == tile_connectors(state.tiles[node].link, orientation)
    IN  \A d \in Direction :
            LET e == state.edges[<<node, child_of(node, d)>>]
            IN  \/ e = "unknown"
                \/ ~ \/ connectors[index(d) + 1] /\ e = "absent"
                     \/ ~connectors[index(d) + 1] /\ e = "present"

\* Solver._inspect_tile, lines 276-292: the loop over the directions from
\* index i on.  ok is false when the assertion of line 290 fails.
RECURSIVE inspect_edges(_, _, _)
inspect_edges(node, state, i) ==
    IF i = 4 THEN [state |-> state, ok |-> TRUE]
    ELSE
        LET tile == state.tiles[node]
            collected_edges ==
                [k \in 1 .. Len(tile.possible_orientations) |->
                    tile_connectors(tile.link, tile.possible_orientations[k])[i + 1]]
            same == /\ collected_edges # << >>
                    /\ \A k \in 1 .. Len(collected_edges) :
                          collected_edges[k] = collected_edges[1]
        IN  IF ~same THEN inspect_edges(node, state, i + 1)
            ELSE
                LET edge_state == collected_edges[1]
                    child == child_of(node, DirectionList[i + 1])
                    e == state.edges[<<node, child>>]
                IN  IF /\ e # "unknown"
                       /\ ~ \/ edge_state /\ e = "present"
                            \/ ~edge_state /\ e = "absent"
                    THEN [state |-> state, ok |-> FALSE]
                    ELSE inspect_edges(
                            node,
                            [state EXCEPT
                                !.edges = setitem(@, node, child,
                                    IF edge_state THEN "present" ELSE "absent")],
                            i + 1)

\* A variant of Solver._inspect_tile in which line 273, which keeps the valid
\* orientations only, is left out.
inspect_tile_unfiltered(node, state) ==
    LET tile == state.tiles[node]
    IN  IF Len(tile.possible_orientations) <= 0
        THEN [state |-> state, ok |-> TRUE]
        ELSE inspect_edges(node, state, 0)

\* Solver._inspect_tile: the state after the call, and whether it returned
\* (ok) or raised AssertionError.
inspect_tile(node, state) ==
    LET tile == state.tiles[node]
    IN  IF Len(tile.possible_orientations) <= 0
        THEN [state |-> state, ok |-> TRUE]
        ELSE inspect_edges(
                node,
                [state EXCEPT
                    !.tiles[node].possible_orientations =
                        SelectSeq(@, LAMBDA o : valid_orientation(node, o, state))],
                0)

\* A variant of Solver._handle_boundary in which the loop of lines 170-171
\* is left out: the edges across the left and right border are not set.
handle_boundary_columns(edges, columns, rows) ==
    setitems(edges,
        [i \in 1 .. columns |-> <<<<i - 1, 0>>, <<i - 1, rows - 1>>>>], "absent")

\* Solver._handle_boundary
handle_boundary(edges, columns, rows) ==
    LET e1 == setitems(edges,
                  [i \in 1 .. columns |-> <<<<i - 1, 0>>, <<i - 1, rows - 1>>>>], "absent")
    IN  setitems(e1,
            [i \in 1 .. rows |-> <<<<0, i - 1>>, <<columns - 1, i - 1>>>>], "absent")

\* The elements of a set as a list, in some order.
RECURSIVE as_list(_)
as_list(S) ==
    IF S = {} THEN << >>
    ELSE LET x == CHOOSE x \in S : TRUE IN <<x>> \o as_list(S \ {x})

\* A variant of Solver._handle_walls in which tile2 of a horizontal wall is
\* the neighbor above (w.position + Vector2d(0, 1)).
handle_walls_above(edges, the_walls, columns, rows) ==
    LET pair(w) ==
            LET tile1 == w.position
                tile2 == IF w.orientation = "horizontal"
                         THEN add(w.position, <<0, 1>>)
                         ELSE sub(w.position, <<1, 0>>)
            IN  <<normalize(tile1, columns, rows), normalize(tile2, columns, rows)>>
        ws == as_list(the_walls)
    IN  setitems(edges, [i \in 1 .. Len(ws) |-> pair(ws[i])], "absent")

\* Solver._handle_walls: every wall sets its edge absent, so the order in
\* which the walls are visited does not show.
handle_walls(edges, the_walls, columns, rows) ==
    LET pair(w) ==
            LET tile1 == w.position
                tile2 == IF w.orientation = "horizontal"
                         THEN sub(w.position, <<0, 1>>)
                         ELSE sub(w.position, <<1, 0>>)
            IN  <<normalize(tile1, columns, rows), normalize(tile2, columns, rows)>>
        ws == as_list(the_walls)
    IN  setitems(edges, [i \in 1 .. Len(ws) |-> pair(ws[i])], "absent")

\* Line 197, self.tiles[neighbor] == LinkType.dead_end: a Solver.Tile object
\* is compared with a LinkType member; Solver.Tile defines no __eq__, so the
\* comparison is by identity and is never true.
tile_is_link(tile, link) == FALSE

\* Solver._handle_adjacent_drains
handle_adjacent_drains(tiles, edges, columns, rows) ==
    LET order == GridOrder(columns, rows)
        pairs == [i \in 1 .. 2 * Len(order) |->
                    LET node == order[(i + 1) \div 2]
                        d == IF i % 2 = 1 THEN "right" ELSE "up"
                    IN  <<node, normalize(add(node, vector(d)), columns, rows)>>]
        hit == SelectSeq(pairs, LAMBDA p :
                    /\ tiles[p[1]].link = "dead_end"
                    /\ tile_is_link(tiles[p[2]], "dead_end"))
    IN  setitems(edges, hit, "absent")

\* Solver._handle_simple_tiles: the loop over the grid from position i on.
RECURSIVE handle_simple_tiles(_, _)
handle_simple_tiles(state, i) ==
    LET order == GridOrder(solver.columns, solver.rows)
    IN  IF i > Len(order) THEN [state |-> state, ok |-> TRUE]
        ELSE IF heap[0].tiles[order[i]].link \in {"empty", "cross_intersection"}
             THEN LET r == inspect_tile(order[i], state)
                  IN  IF r.ok THEN handle_simple_tiles(r.state, i + 1) ELSE r
             ELSE handle_simple_tiles(state, i + 1)

\* The elements work.pop() may take from the set work: a set has no order of
\* its own, so the first and the last element in grid order stand for the
\* arbitrary element that pop returns.
PopOrders == {"first", "last"}

\* work.pop() on a set, under a pop order.
pop(work, order) ==
    LET l == SelectSeq(GridOrder(solver.columns, solver.rows), LAMBDA n : n \in work)
    IN  IF order = "first" THEN l[1] ELSE l[Len(l)]

\* Solver._check_power, lines 313-318: the loop.
RECURSIVE power_loop(_, _, _, _)
power_loop(power, work, state, order) ==
    IF work = {} THEN power
    ELSE
        LET node == pop(work, order)
            power1 == [power EXCEPT ![node] = TRUE]
            nbrs == Range(neighbors(node, solver.columns, solver.rows, TRUE))
            added == {nb \in nbrs : state.edges[<<node, nb>>] = "present" /\ ~power1[nb]}
        IN  power_loop(power1, (work \ {node}) \cup added, state, order)

\* A variant of Solver._check_power in which line 319 reads any(...) where
\* the code reads all(...).
check_power_any(state, order) ==
    LET power == power_loop([n \in Nodes(solver.columns, solver.rows) |-> FALSE],
                            {solver.source}, state, order)
    IN  \E n \in Nodes(solver.columns, solver.rows) : power[n]

\* Solver._check_power
check_power(state, order) ==
    LET power == power_loop([n \in Nodes(solver.columns, solver.rows) |-> FALSE],
                            {solver.source}, state, order)
    IN  \A n \in Nodes(solver.columns, solver.rows) : power[n]

\* _forward_inference, lines 247-249: the neighbors not yet in work are appended.
RECURSIVE append_new(_, _)
append_new(work, nbrs) ==
    IF nbrs = << >> THEN work
    ELSE IF Head(nbrs) \in Range(work) THEN append_new(work, Tail(nbrs))
         ELSE append_new(Append(work, Head(nbrs)), Tail(nbrs))

\* The State objects still referenced: self.tiles/self.edges, the work
\* stack and the solutions; the others are garbage.
collect(h, stack, solutions) ==
    [id \in {0} \cup {stack[i].state : i \in 1 .. Len(stack)} \cup Range(solutions) |-> h[id]]

\* What a Solver instance has recorded when run ends: its solutions, as
\* orientation lists per node and edge states, the exception, if any, and
\* what run returned to its caller: run has no return statement, so None.
outcome(h, solutions, exception) ==
    [solutions |-> [i \in 1 .. Len(solutions) |-> h[solutions[i]]],
     error |-> exception,
     returned |-> [kind |-> "None"]]

\* Solver.__init__, lines 152-164: the Solver made of a puzzle.  Line 158
\* reads puzzle.grid[node].link: where the cell holds None it raises
\* AttributeError and no Solver is made.
Constructed(the_puzzle) ==
    /\ \/ pc = "puzzle"
       \/ pc = "done"
       \/ pc = "raised" /\ error = "AssertionError"
    /\ Len(results) < MaxSolvers
    /\ IF \E n \in DOMAIN the_puzzle.grid : the_puzzle.grid[n] = NoTile
       THEN /\ pc' = "raised"
            /\ error' = "AttributeError"
            /\ UNCHANGED <<solver, heap, work_stack, item>>
       ELSE /\ LET columns == the_puzzle.columns
                   rows == the_puzzle.rows
                   tiles == [n \in Nodes(columns, rows) |->
                                SolverTile(the_puzzle.grid[n].link, << >>)]
                   e0 == Edges(columns, rows)
                   e1 == IF ~the_puzzle.wrap THEN handle_boundary(e0, columns, rows)
                         ELSE e0
                   e2 == handle_walls(e1, the_puzzle.walls, columns, rows)
                   e3 == handle_adjacent_drains(tiles, e2, columns, rows)
               IN  /\ solver' = [columns |-> columns, rows |-> rows,
                                 source |-> the_puzzle.source, solutions |-> << >>]
                   /\ heap' = [id \in {0} |-> State(tiles, e3)]
            /\ work_stack' = << >>
            /\ item' = NoItem
            /\ pc' = "solver"
            /\ error' = "None"

\* A variant of Solver.__init__ in which _handle_walls takes the walls off
\* the puzzle's list (walls.pop()) where the code iterates over it.
SolverNewPoppingWalls ==
    /\ Constructed(puzzle)
    /\ puzzle' = [puzzle EXCEPT !.walls = {}]
    /\ UNCHANGED <<builderVars, call, results>>

\* Solver.__init__: a Solver is made of the puzzle; the puzzle is read only.
SolverNew ==
    /\ Constructed(puzzle)
    /\ UNCHANGED <<builderVars, call, puzzle, results>>

\* The run ends with AssertionError.
Raise(h) ==
    /\ pc' = "raised"
    /\ error' = "AssertionError"
    /\ heap' = h
    /\ results' = Append(results, outcome(h, solver.solutions, "AssertionError"))
    /\ UNCHANGED <<solver, work_stack, item>>

\* Solver.run, lines 202-205, after _handle_simple_tiles gave r.
Started(r) ==
    LET all_tiles == GridOrder(solver.columns, solver.rows)
    IN  IF ~r.ok THEN Raise([heap EXCEPT ![0] = r.state])
        ELSE /\ heap' = [heap EXCEPT ![0] = r.state]
             /\ work_stack' = <<WorkItem(0, all_tiles)>>
             /\ pc' = "loop"
             /\ UNCHANGED <<error, solver, item, results>>

\* Solver.run, lines 202-205.
RunStart ==
    /\ pc = "solver"
    /\ Started(handle_simple_tiles(heap[0], 1))
    /\ UNCHANGED <<builderVars, call, puzzle>>

\* A variant of Pop in which line 207 takes any item of the stack, as a pop
\* from an unordered collection would.
PopAny ==
    /\ pc = "loop"
    /\ work_stack # << >>
    /\ \E i \in 1 .. Len(work_stack) :
          /\ item' = work_stack[i]
          /\ work_stack' = SubSeq(work_stack, 1, i - 1) \o
                           SubSeq(work_stack, i + 1, Len(work_stack))
    /\ pc' = "infer"
    /\ UNCHANGED <<error, builderVars, call, puzzle, solver, heap, results>>

\* A variant of Pop in which line 207 takes the oldest item of the stack
\* (work_stack.pop(0)).
PopFirst ==
    /\ pc = "loop"
    /\ work_stack # << >>
    /\ item' = work_stack[1]
    /\ work_stack' = Tail(work_stack)
    /\ pc' = "infer"
    /\ UNCHANGED <<error, builderVars, call, puzzle, solver, heap, results>>

\* Solver.run, lines 206-210: the next work item is popped.
Pop ==
    /\ pc = "loop"
    /\ work_stack # << >>
    /\ item' = work_stack[Len(work_stack)]
    /\ work_stack' = SubSeq(work_stack, 1, Len(work_stack) - 1)
    /\ pc' = "infer"
    /\ UNCHANGED <<error, builderVars, call, puzzle, solver, heap, results>>

\* Solver.run, lines 206 and 228: the stack is empty, run returns.
RunEnd ==
    /\ pc = "loop"
    /\ work_stack = << >>
    /\ pc' = "done"
    /\ results' = Append(results, outcome(heap, solver.solutions, "None"))
    /\ UNCHANGED <<error, builderVars, call, puzzle, solver, heap, work_stack, item>>

\* _forward_inference, lines 242-251: what follows the inspection of pos,
\* whose result is r; work is the list after popleft.
Inspected(pos, work, before, r) ==
    LET after == Len(r.state.tiles[pos].possible_orientations)
        h == [heap EXCEPT ![item.state] = r.state]
    IN  IF ~r.ok \/ after > before THEN Raise(h)
        ELSE IF after = before
        THEN /\ item' = [item EXCEPT !.work = work]
             /\ heap' = h
             /\ UNCHANGED <<pc, error, solver, work_stack, results>>
        ELSE IF 0 < after
        THEN /\ item' = [item EXCEPT !.work =
                    append_new(work, neighbors(pos, solver.columns, solver.rows, TRUE))]
             /\ heap' = h
             /\ UNCHANGED <<pc, error, solver, work_stack, results>>
        ELSE /\ item' = NoItem
             /\ heap' = collect(h, work_stack, solver.solutions)
             /\ pc' = "loop"
             /\ UNCHANGED <<error, solver, work_stack, results>>

\* _forward_inference, lines 236-251: one iteration of the loop over work.
InferStep ==
    /\ pc = "infer"
    /\ item.work # << >>
    /\ LET pos == Head(item.work)
           state == heap[item.state]
           before == Len(state.tiles[pos].possible_orientations)
       IN  Inspected(pos, Tail(item.work), before,
                     IF before > 1 THEN inspect_tile(pos, state)
                     ELSE [state |-> state, ok |-> TRUE])
    /\ UNCHANGED <<builderVars, call, puzzle>>

\* _forward_inference, line 253
partial_solution(state) ==
    \A n \in DOMAIN state.tiles : Len(state.tiles[n].possible_orientations) = 1

\* _forward_inference, lines 253-262: work is empty.
InferEnd ==
    /\ pc = "infer"
    /\ item.work = << >>
    /\ IF ~partial_solution(heap[item.state])
       THEN /\ pc' = "branch"
            /\ UNCHANGED <<solver, heap, item>>
       ELSE /\ \E order \in PopOrders :
                    solver' = [solver EXCEPT !.solutions =
                        IF check_power(heap[item.state], order)
                        THEN Append(@, item.state) ELSE @]
            /\ heap' = collect(heap, work_stack, solver'.solutions)
            /\ item' = NoItem
            /\ pc' = "loop"
    /\ UNCHANGED <<error, builderVars, call, puzzle, work_stack, results>>

\* A variant of lines 214-220 in which line 218 reads "orientations <=
\* minimum": among the tiles with the fewest orientations the last one wins.
RECURSIVE min_scan_last(_, _, _, _)
min_scan_last(state, i, minimum, min_pos) ==
    LET order == GridOrder(solver.columns, solver.rows)
    IN  IF i > Len(order) THEN min_pos
        ELSE LET orientations == Len(state.tiles[order[i]].possible_orientations)
             IN  IF orientations >= 2 /\ (minimum = 0 \/ orientations <= minimum)
                 THEN min_scan_last(state, i + 1, orientations, <<order[i]>>)
                 ELSE min_scan_last(state, i + 1, minimum, min_pos)

\* Solver.run, lines 214-220: the tile with the fewest orientations left, at
\* least two; the first such tile in grid order.  << >> when minimum is None.
RECURSIVE min_scan(_, _, _, _)
min_scan(state, i, minimum, min_pos) ==
    LET order == GridOrder(solver.columns, solver.rows)
    IN  IF i > Len(order) THEN min_pos
        ELSE LET orientations == Len(state.tiles[order[i]].possible_orientations)
             IN  IF orientations >= 2 /\ (minimum = 0 \/ orientations < minimum)
                 THEN min_scan(state, i + 1, orientations, <<order[i]>>)
                 ELSE min_scan(state, i + 1, minimum, min_pos)

\* A variant of lines 222-227 in which Edges.clone returns the Edges object
\* itself: a child state is given the edges the child before it has set.
RECURSIVE children_shared_edges(_, _, _)
children_shared_edges(state, min_pos, k) ==
    LET os == state.tiles[min_pos].possible_orientations
    IN  IF k > Len(os) THEN [states |-> << >>, ok |-> TRUE]
        ELSE LET child_state == [clone(state) EXCEPT
                     !.tiles[min_pos].possible_orientations = <<os[k]>>]
                 r == inspect_tile(min_pos, child_state)
                 rest == children_shared_edges(
                             [state EXCEPT !.edges = r.state.edges], min_pos, k + 1)
             IN  IF ~r.ok THEN [states |-> <<r.state>>, ok |-> FALSE]
                 ELSE [states |-> <<r.state>> \o rest.states, ok |-> rest.ok]

\* Solver.run, lines 222-227: the child states for the orientations from
\* position k on, pushed in this order.  ok is false when _inspect_tile raised.
RECURSIVE children(_, _, _)
children(state, min_pos, k) ==
    LET os == state.tiles[min_pos].possible_orientations
    IN  IF k > Len(os) THEN [states |-> << >>, ok |-> TRUE]
        ELSE LET child_state == [clone(state) EXCEPT
                     !.tiles[min_pos].possible_orientations = <<os[k]>>]
                 r == inspect_tile(min_pos, child_state)
                 rest == children(state, min_pos, k + 1)
             IN  IF ~r.ok THEN [states |-> <<r.state>>, ok |-> FALSE]
                 ELSE [states |-> <<r.state>> \o rest.states, ok |-> rest.ok]

\* Solver.run, lines 222-227: the children r.states are pushed, with the
\* neighbors of min_pos as their work.
Pushed(min_pos, r) ==
    LET base == CHOOSE m \in DOMAIN heap : \A id \in DOMAIN heap : id <= m
        nbrs == neighbors(min_pos, solver.columns, solver.rows, TRUE)
        h == [id \in DOMAIN heap \cup (base + 1 .. base + Len(r.states)) |->
                 IF id \in DOMAIN heap THEN heap[id] ELSE r.states[id - base]]
        stack == work_stack \o
                 [k \in 1 .. Len(r.states) |-> WorkItem(base + k, nbrs)]
    IN  IF ~r.ok THEN Raise(h)
        ELSE /\ work_stack' = stack
             /\ heap' = collect(h, stack, solver.solutions)
             /\ item' = NoItem
             /\ pc' = "loop"
             /\ UNCHANGED <<error, solver, results>>

\* Solver.run, lines 213-227, branching on the tile at min_pos.
BranchAt(min_pos) == Pushed(min_pos, children(heap[item.state], min_pos, 1))

\* Solver.run, lines 211-227: forward inference asked for a further search.
Branch ==
    /\ pc = "branch"
    /\ LET found == min_scan(heap[item.state], 1, 0, << >>)
       IN  IF found = << >> THEN Raise(heap) ELSE BranchAt(found[1])
    /\ UNCHANGED <<builderVars, call, puzzle>>

(***************************************************************************)
(* Puzzles made by hand                                                    *)
(***************************************************************************)
\* The sizes of the grids of the puzzles made by hand.
GivenSizes ==
    {d \in (1 .. MaxGivenNodes) \X (1 .. MaxGivenNodes) : d[1] * d[2] <= MaxGivenNodes}

\* The sets of walls of the puzzles made by hand, on a columns x rows grid.
GivenWalls(columns, rows) ==
    {W \in SUBSET [position : Nodes(columns, rows),
                   orientation : {"horizontal", "vertical"}] :
        Cardinality(W) <= MaxGivenWalls}

\* A puzzle that no Builder made: any assignment of link types to the grid,
\* any walls, any source; the tiles in their canonical orientation.
InitGiven ==
    /\ pc = "puzzle"
    /\ error = "None"
    /\ builder = NoBuilder
    /\ visited = << >>
    /\ boundary = {}
    /\ grid = << >>
    /\ walls = {}
    /\ \E d \in GivenSizes :
         \E links \in [Nodes(d[1], d[2]) -> LinkType] :
           \E ws \in GivenWalls(d[1], d[2]) :
             \E source \in Nodes(d[1], d[2]) :
               \E wrap \in BOOLEAN :
                 puzzle = Puzzle([n \in Nodes(d[1], d[2]) |->
                                     Tile(links[n], "right",
                                          IF n = source THEN "source" ELSE "None")],
                                 ws, source, 0, wrap, d[1], d[2])
    /\ solver = NoSolver
    /\ heap = << >>
    /\ work_stack = << >>
    /\ item = NoItem
    /\ results = << >>
    /\ call = NoCall

\* The example puzzle, which no Builder instance made.
InitExample ==
    /\ pc = "puzzle"
    /\ error = "None"
    /\ builder = NoBuilder
    /\ visited = << >>
    /\ boundary = {}
    /\ grid = << >>
    /\ walls = {}
    /\ puzzle = example
    /\ solver = NoSolver
    /\ heap = << >>
    /\ work_stack = << >>
    /\ item = NoItem
    /\ results = << >>
    /\ call = NoCall

\* A puzzle made by hand on which the run branches, and branches again on
\* a child state: a 3x3 grid with wrap, no walls, the source in the middle.
branching_puzzle ==
    LET links == (<<0, 0>> :> "dead_end") @@ (<<0, 1>> :> "dead_end") @@
                 (<<0, 2>> :> "dead_end") @@ (<<1, 0>> :> "straight") @@
                 (<<1, 1>> :> "t_intersection") @@ (<<1, 2>> :> "t_intersection") @@
                 (<<2, 0>> :> "corner") @@ (<<2, 1>> :> "t_intersection") @@
                 (<<2, 2>> :> "straight")
    IN  Puzzle([n \in Nodes(3, 3) |->
                   Tile(links[n], "right", IF n = <<1, 1>> THEN "source" ELSE "None")],
               {}, <<1, 1>>, 0, TRUE, 3, 3)

\* The Solver is given the puzzle on which the run branches twice.
InitBranching ==
    /\ pc = "puzzle"
    /\ error = "None"
    /\ builder = NoBuilder
    /\ visited = << >>
    /\ boundary = {}
    /\ grid = << >>
    /\ walls = {}
    /\ puzzle = branching_puzzle
    /\ solver = NoSolver
    /\ heap = << >>
    /\ work_stack = << >>
    /\ item = NoItem
    /\ results = << >>
    /\ call = NoCall

InitBuilder ==
    /\ pc = "builder"
    /\ error = "None"
    /\ \E options \in OptionsSet : builder = BuilderNew(options)
    /\ visited = << >>
    /\ boundary = {}
    /\ grid = << >>
    /\ walls = {}
    /\ puzzle = NoPuzzle
    /\ solver = NoSolver
    /\ heap = << >>
    /\ work_stack = << >>
    /\ item = NoItem
    /\ results = << >>
    /\ call = NoCall

Init == InitBuilder \/ InitGiven \/ InitExample \/ InitBranching

\* Generation of the tree and the walls, then the solver on the puzzle made
\* of them; and the solver on the puzzles made by hand.
Next ==
    \/ RunBegin
    \/ TreeStep
    \/ TreeFinish
    \/ CreateWalls
    \/ Unscrambled
    \/ SolverNew
    \/ RunStart
    \/ Pop
    \/ RunEnd
    \/ InferStep
    \/ InferEnd
    \/ Branch

Spec == Init /\ [][Next]_vars

\* Solver.run, lines 206-210, for a work stack processed in any order: any
\* item of the stack is taken next.
PopInAnyOrder == PopAny

\* The program with the work stack processed in any order.
NextAnyOrder ==
    \/ RunBegin
    \/ TreeStep
    \/ TreeFinish
    \/ CreateWalls
    \/ Unscrambled
    \/ SolverNew
    \/ RunStart
    \/ PopInAnyOrder
    \/ RunEnd
    \/ InferStep
    \/ InferEnd
    \/ Branch

AnyOrderSpec == Init /\ [][NextAnyOrder]_vars

\* Solver.__init__ on a puzzle of which no Solver has been made yet.
SolverFirst ==
    /\ pc = "puzzle"
    /\ SolverNew

\* Solver.run called again on the Solver whose run has returned, lines
\* 202-205: the initial state is made of self.tiles and self.edges as the run
\* before left them, and self.solutions keeps its entries.
RunAgain ==
    /\ pc = "done"
    /\ Len(results) < MaxSolvers
    /\ Started(handle_simple_tiles(heap[0], 1))
    /\ UNCHANGED <<builderVars, call, puzzle>>

\* The program with run called again on the same Solver.
NextRerun ==
    \/ RunBegin
    \/ TreeStep
    \/ TreeFinish
    \/ CreateWalls
    \/ Unscrambled
    \/ SolverFirst
    \/ RunStart
    \/ Pop
    \/ RunEnd
    \/ InferStep
    \/ InferEnd
    \/ Branch
    \/ RunAgain

RerunSpec == Init /\ [][NextRerun]_vars

\* Builder.run alone.
NextBuilder ==
    \/ RunBegin
    \/ TreeStep
    \/ TreeFinish
    \/ CreateWalls
    \/ Rotate

BuilderSpec == InitBuilder /\ [][NextBuilder]_vars


(***************************************************************************)
(* Functions called on their own                                           *)
(***************************************************************************)
\* The arguments of clamp.
ClampArgs == (-MaxInt .. MaxInt) \X (-MaxInt .. MaxInt) \X (-MaxInt .. MaxInt)

\* The arguments of weighted_choice: a sequence of elements and a list of
\* non-negative integer weights.
ChoiceArgs ==
    UNION {[1 .. n -> {"A", "B"}] \X [1 .. m -> 0 .. MaxWeight] :
              <<n, m>> \in (0 .. MaxLen) \X (0 .. MaxLen)}

\* The arguments of the round trip: a link type and an orientation.
TileArgs == LinkType \X Direction

\* The numbers given to Grid as columns and rows.
GridNumbers == [type : {"int", "float"}, value : -MaxDim .. MaxDim]

\* The arguments of Grid.
GridArgs == GridNumbers \X GridNumbers \X BOOLEAN

\* The calls.
Calls ==
    {[op |-> "clamp", args |-> a, ret |-> [kind |-> "None"]] : a \in ClampArgs}
    \cup {[op |-> "weighted_choice", args |-> a, ret |-> [kind |-> "None"]] :
             a \in ChoiceArgs}
    \cup {[op |-> "to_tile", args |-> a, ret |-> [kind |-> "None"]] : a \in TileArgs}
    \cup {[op |-> "Grid", args |-> a, ret |-> [kind |-> "None"]] : a \in GridArgs}

\* A function is about to be called.
InitCall ==
    /\ pc = "call"
    /\ error = "None"
    /\ builder = NoBuilder
    /\ visited = << >>
    /\ boundary = {}
    /\ grid = << >>
    /\ walls = {}
    /\ puzzle = NoPuzzle
    /\ solver = NoSolver
    /\ heap = << >>
    /\ work_stack = << >>
    /\ item = NoItem
    /\ results = << >>
    /\ call \in Calls

\* The call returns ret.
Returned(ret) ==
    /\ call' = [call EXCEPT !.ret = ret]
    /\ pc' = "returned"
    /\ UNCHANGED <<error, builderVars, puzzle, solverVars>>

\* clamp(n, smallest, largest)
CallClamp ==
    /\ pc = "call"
    /\ call.op = "clamp"
    /\ Returned([kind |-> "value",
                 value |-> clamp(call.args[1], call.args[2], call.args[3])])

\* weighted_choice(sequence, weights), lines 29-44: the ValueError of an empty
\* sequence or of lists of different length, or the element chosen by a draw.
CallWeightedChoice ==
    /\ pc = "call"
    /\ call.op = "weighted_choice"
    /\ LET sequence == call.args[1]
           weights == call.args[2]
       IN  IF Len(sequence) <= 0 \/ Len(sequence) # Len(weights)
           THEN Returned([kind |-> "raised", error |-> "ValueError"])
           ELSE \E r \in uniform(sum(weights)) :
                   Returned([kind |-> "value",
                             value |-> weighted_choice(sequence, weights, r)])

\* The arms of a tile, tile_connectors[link][orientation], made a tile again
\* by Node.to_tile.
CallToTile ==
    /\ pc = "call"
    /\ call.op = "to_tile"
    /\ Returned([kind |-> "value",
                 value |-> to_tile(tile_connectors(call.args[1], call.args[2]))])

\* Grid(columns, rows, periodic)
CallGrid ==
    /\ pc = "call"
    /\ call.op = "Grid"
    /\ Returned(Grid_init(call.args[1], call.args[2], call.args[3]))

NextCall ==
    \/ CallClamp
    \/ CallWeightedChoice
    \/ CallToTile
    \/ CallGrid

UtilSpec == InitCall /\ [][NextCall]_vars

\* The steps of one Solver.run.
SolverStep == RunStart \/ Pop \/ RunEnd \/ InferStep \/ InferEnd \/ Branch

(***************************************************************************)
(* Properties                                                              *)
(***************************************************************************)
\* The arm pattern of a tile of a state that has one orientation left.
arms_of(state, n) ==
    tile_connectors(state.tiles[n].link, state.tiles[n].possible_orientations[1])

\* The nodes a traversal from the set S reaches over edges that are present.
RECURSIVE reach(_, _)
reach(S, state) ==
    LET T == S \cup {child_of(n, d) : <<n, d>> \in
                        {x \in S \X Direction :
                            state.edges[<<x[1], child_of(x[1], x[2])>>] = "present"}}
    IN  IF T = S THEN S ELSE reach(T, state)

\* Every node of the grid is reached from the source over present edges.
Connected(state) ==
    reach({solver.source}, state) = Nodes(solver.columns, solver.rows)

\* The node a tree edge of the Builder leads to.
tree_child(n, d) ==
    LET c == add(n, vector(d))
    IN  IF builder.wrap THEN <<c[1] % builder.columns, c[2] % builder.rows>> ELSE c

\* The nodes reached from the set S over the tree edges of the Builder.
RECURSIVE tree_reach(_)
tree_reach(S) ==
    LET T == S \cup {tree_child(x[1], x[2]) : x \in
                        {x \in S \X Direction : builder.nodes[x[1]][index(x[2]) + 1]}}
    IN  IF T = S \/ ~(T \subseteq DOMAIN builder.nodes) THEN T ELSE tree_reach(T)

\* A recorded state is consistent with the puzzle: one orientation per tile
\* of the puzzle's link type, arms that meet arms, no arm across a wall and,
\* without wrap, no arm across the border.
Consistent(state) ==
    /\ \A n \in DOMAIN state.tiles :
          /\ state.tiles[n].link = puzzle.grid[n].link
          /\ Len(state.tiles[n].possible_orientations) = 1
    /\ \A n \in DOMAIN state.tiles : \A d \in Direction :
          arms_of(state, n)[index(d) + 1] =
              arms_of(state, child_of(n, d))[index(neg(d)) + 1]
    /\ \A w \in puzzle.walls :
          LET d == IF w.orientation = "horizontal" THEN "down" ELSE "left"
          IN  /\ ~arms_of(state, w.position)[index(d) + 1]
              /\ ~arms_of(state, child_of(w.position, d))[index(neg(d)) + 1]
    /\ ~puzzle.wrap =>
          \A n \in DOMAIN state.tiles : \A d \in Direction :
              ~valid(add(n, vector(d)), puzzle.columns, puzzle.rows, FALSE) =>
                  ~arms_of(state, n)[index(d) + 1]

\* C1: when Solver.run has returned on a puzzle the Builder generated, with
\* the tiles as generated, some recorded solution gives every tile the arm
\* pattern the tree gave it.
C1_Soundness ==
    (pc = "done" /\ builder # NoBuilder) =>
        \E i \in 1 .. Len(solver.solutions) :
            LET s == heap[solver.solutions[i]]
            IN  \A n \in DOMAIN s.tiles :
                    /\ Len(s.tiles[n].possible_orientations) = 1
                    /\ arms_of(s, n) = builder.nodes[n]

\* C2: every solution the Solver has recorded, for any puzzle, is consistent
\* with the puzzle.
C2_SolutionsConsistent ==
    \A i \in 1 .. Len(solver.solutions) : Consistent(heap[solver.solutions[i]])

\* C3: when forward inference ends with one orientation left for every node,
\* the state is appended to the solutions if every node is reached from the
\* source over present edges and the solutions stay as they are if not; and
\* whatever step lengthens the solutions appends a fully determined,
\* connected state.
C3_RecordedIffConnected ==
    [][/\ (pc = "infer" /\ item.work = << >> /\ partial_solution(heap[item.state])) =>
             IF Connected(heap[item.state])
             THEN /\ solver'.solutions = Append(solver.solutions, item.state)
                  /\ heap'[item.state] = heap[item.state]
             ELSE solver'.solutions = solver.solutions
       /\ Len(solver'.solutions) > Len(solver.solutions) =>
             LET s == heap'[solver'.solutions[Len(solver'.solutions)]]
             IN  partial_solution(s) /\ Connected(s)]_vars

\* A fully determined state that is not connected is about to be discarded
\* in a run that has recorded a solution.
C3_Witness ==
    /\ pc = "infer"
    /\ item.work = << >>
    /\ partial_solution(heap[item.state])
    /\ ~Connected(heap[item.state])
    /\ solver.solutions # << >>

\* C4: once _create_tree has finished, every node of the grid is reached from
\* the source over tree edges.
C4_TreeConnectsAllNodes ==
    pc \in {"walls", "rotate", "built", "raised"} =>
        tree_reach({builder.source}) = Nodes(builder.columns, builder.rows)

\* The tree of a 3x3 grid is finished.
C4_Witness ==
    /\ pc = "walls"
    /\ builder.columns = 3
    /\ builder.rows = 3

\* The assertion of _inspect_tile, line 290, fails in this step.
ContradictionRaised ==
    /\ pc' = "raised"
    /\ \/ pc = "solver"
       \/ pc = "infer"
       \/ pc = "branch" /\ min_scan(heap[item.state], 1, 0, << >>) # << >>

\* C5: on a puzzle the Builder generated, no step of the Solver fails the
\* contradiction assertion of _inspect_tile.
C5_NoContradiction == [][builder # NoBuilder => ~ContradictionRaised]_vars

\* C6: Builder.run stops only by returning a Puzzle: once it is past tree
\* growth, wall sampling and scrambling it has built one, with no error.
C6_BuilderRunReturnsPuzzle ==
    pc \notin {"builder", "tree", "walls", "rotate"} =>
        (pc = "built" /\ error = "None" /\ puzzle # NoPuzzle)

\* C7: Solver.run stops only by returning, with the work list of its last
\* item and the work stack empty.
C7_SolverRunEmptiesStack ==
    pc \in {"done", "raised"} => (pc = "done" /\ item.work = << >> /\ work_stack = << >>)

\* C8: in every edge store, the initial one and every clone, the state of
\* (a, b) is the state of (b, a).
C8_EdgeStoreSymmetry ==
    \A id \in DOMAIN heap :
        \A k \in DOMAIN heap[id].edges :
            /\ <<k[2], k[1]>> \in DOMAIN heap[id].edges
            /\ heap[id].edges[k] = heap[id].edges[<<k[2], k[1]>>]

\* A clone made while branching holds a present edge between two nodes.
C8_Witness ==
    \E id \in DOMAIN heap :
        /\ id # 0
        /\ \E k \in DOMAIN heap[id].edges :
              k[1] # k[2] /\ heap[id].edges[k] = "present"

C10_PuzzleUnchanged ==
    [][(pc \in {"puzzle", "solver", "loop", "infer", "branch", "done", "raised"}) =>
          (puzzle' = puzzle)]_vars

\* A run has returned with a solution on a puzzle that has walls.
C10_Witness ==
    /\ pc = "done"
    /\ puzzle.walls # {}
    /\ solver.solutions # << >>


\* The tile the tree gave a node, before scrambling.
as_generated(n) == to_tile(builder.nodes[n])

\* The nodes whose tile is not in its as-generated orientation.
scrambled ==
    {n \in DOMAIN puzzle.grid : puzzle.grid[n].orientation # as_generated(n).orientation}

\* C11: in a Puzzle that Builder.run returned, a wall lies where the tree has
\* no edge: the tile at its position has no arm toward the wall (down for a
\* horizontal wall, left for a vertical one) and the neighbor on the other
\* side has no arm back; without wrap no wall lies on the border.
C11_WallsOffTree ==
    pc = "built" =>
        \A w \in puzzle.walls :
            LET d == IF w.orientation = "horizontal" THEN "down" ELSE "left"
            IN  /\ ~builder.nodes[w.position][index(d) + 1]
                /\ IF builder.wrap
                   THEN ~builder.nodes[tree_child(w.position, d)][index(neg(d)) + 1]
                   ELSE /\ w.orientation = "horizontal" => w.position[2] # 0
                        /\ w.orientation = "vertical" => w.position[1] # 0
                        /\ tree_child(w.position, d) \in DOMAIN builder.nodes
                        /\ ~builder.nodes[tree_child(w.position, d)][index(neg(d)) + 1]

\* Builder.run returned a Puzzle with a wall, on a grid of four nodes or more.
C11_Witness ==
    /\ pc = "built"
    /\ puzzle.walls # {}
    /\ builder.columns * builder.rows >= 4

\* C12: after scrambling, expected_moves is the number of tiles that are not
\* in their as-generated orientation and lies between 1 and the number of
\* tiles that are neither cross_intersection nor empty; a scrambled tile is
\* neither of the two, a scrambled straight tile is one quarter turn from its
\* as-generated orientation, and no link type has changed.
C12_Scrambling ==
    pc = "built" =>
        /\ puzzle.expected_moves = Cardinality(scrambled)
        /\ 1 <= puzzle.expected_moves
        /\ puzzle.expected_moves <=
               Cardinality({n \in DOMAIN puzzle.grid :
                   as_generated(n).link \notin {"cross_intersection", "empty"}})
        /\ \A n \in scrambled :
               /\ puzzle.grid[n].link \notin {"cross_intersection", "empty"}
               /\ puzzle.grid[n].link = "straight" =>
                      puzzle.grid[n].orientation = rotate(as_generated(n).orientation, 1)
        /\ \A n \in DOMAIN puzzle.grid : puzzle.grid[n].link = as_generated(n).link

\* Two tiles are scrambled, a straight one among them.
C12_Witness ==
    /\ pc = "built"
    /\ puzzle.expected_moves = 2
    /\ \E n \in scrambled : puzzle.grid[n].link = "straight"
    /\ \E n \in scrambled : puzzle.grid[n].link # "straight"

\* C13: in a Puzzle that Builder.run returned, the source is the node
\* (columns // 2, rows // 2), its tile is the one tile with entity source,
\* every other dead end is a drain and every other tile a link.
C13_SourceEntity ==
    pc = "built" =>
        /\ puzzle.source = <<builder.columns \div 2, builder.rows \div 2>>
        /\ \A n \in DOMAIN puzzle.grid :
               puzzle.grid[n].entity =
                   IF n = puzzle.source THEN "source"
                   ELSE IF puzzle.grid[n].link = "dead_end" THEN "drain" ELSE "link"

\* The source tile is a dead end, and the puzzle has a drain and a link.
C13_Witness ==
    /\ pc = "built"
    /\ puzzle.grid[puzzle.source].link = "dead_end"
    /\ \E n \in DOMAIN puzzle.grid : puzzle.grid[n].entity = "drain"
    /\ \E n \in DOMAIN puzzle.grid : puzzle.grid[n].entity = "link"

\* C14, as stated: for every link type and every orientation, the arms of
\* the pair, put through the table of Node.to_tile, give the pair back.
C14_RoundTrip ==
    (pc = "returned" /\ call.op = "to_tile") =>
        /\ call.ret.value.link = call.args[1]
        /\ call.ret.value.orientation = call.args[2]

\* C14, amended: the round trip gives back the link type, and the
\* orientation among those the Solver keeps for the link type that has the
\* same arms; so it gives the pair back exactly when the orientation is one
\* of those (all four for dead_end, corner and t_intersection, right and up
\* for straight, right for empty and cross_intersection).
C14_RoundTripCanonical ==
    (pc = "returned" /\ call.op = "to_tile") =>
        /\ call.ret.value.link = call.args[1]
        /\ call.ret.value.orientation \in Range(default_orientations(call.args[1]))
        /\ tile_connectors(call.ret.value.link, call.ret.value.orientation) =
               tile_connectors(call.args[1], call.args[2])
        /\ (call.ret.value.orientation = call.args[2]) <=>
               (call.args[2] \in Range(default_orientations(call.args[1])))

\* The round trip of a straight tile turned left gave a straight tile turned
\* right.
C14_Witness ==
    /\ pc = "returned"
    /\ call.op = "to_tile"
    /\ call.args = <<"straight", "left">>
    /\ call.ret.value.orientation = "right"

\* C15: weighted_choice([A, B], [1, 0]) returns A and
\* weighted_choice([A, B], [0, 0]) returns B, whatever random.uniform draws.
C15_WeightedChoiceExamples ==
    (pc = "returned" /\ call.op = "weighted_choice") =>
        /\ call.args = <<<<"A", "B">>, <<1, 0>>>> =>
               call.ret = [kind |-> "value", value |-> "A"]
        /\ call.args = <<<<"A", "B">>, <<0, 0>>>> =>
               call.ret = [kind |-> "value", value |-> "B"]

\* weighted_choice([A, B], [1, 0]) has returned.
C15_Witness ==
    /\ pc = "returned"
    /\ call.op = "weighted_choice"
    /\ call.args = <<<<"A", "B">>, <<1, 0>>>>
    /\ call.ret.kind = "value"

\* C16: for smallest <= largest, clamp returns smallest below the range,
\* largest above it and n inside it, so a value of the range.
C16_Clamp ==
    (pc = "returned" /\ call.op = "clamp" /\ call.args[2] <= call.args[3]) =>
        LET n == call.args[1]
            smallest == call.args[2]
            largest == call.args[3]
        IN  /\ call.ret.value = IF n < smallest THEN smallest
                                ELSE IF n > largest THEN largest ELSE n
            /\ smallest <= call.ret.value
            /\ call.ret.value <= largest

\* clamp(1, 4, 10) has returned 4.
C16_Witness ==
    /\ pc = "returned"
    /\ call.op = "clamp"
    /\ call.args = <<1, 4, 10>>
    /\ call.ret.value = 4

\* C17: Grid(columns, rows) makes a Grid exactly when both dimensions are
\* positive integers, and raises otherwise.
C17_GridDimensions ==
    (pc = "returned" /\ call.op = "Grid") =>
        (call.ret.kind = "Grid") <=>
            /\ call.args[1].type = "int" /\ call.args[1].value > 0
            /\ call.args[2].type = "int" /\ call.args[2].value > 0

\* C18: the Solver on the example puzzle stops only by returning, with a
\* solution recorded, and every recorded solution is connected.
C18_ExampleSolved ==
    (puzzle = example /\ pc \in {"done", "raised"}) =>
        /\ pc = "done"
        /\ solver.solutions # << >>
        /\ \A i \in 1 .. Len(solver.solutions) : Connected(heap[solver.solutions[i]])

\* C19: when Solver.run has returned, it has returned the list of the
\* solutions it recorded.
C19_RunReturnsSolutions ==
    pc = "done" =>
        results[Len(results)].returned =
            [kind |-> "list", value |-> results[Len(results)].solutions]

\* C20: after the construction of the Solver, the edge between two adjacent
\* dead ends is absent.
C20_AdjacentDrainsAbsent ==
    pc = "solver" =>
        \A n \in DOMAIN heap[0].tiles : \A d \in Direction :
            (/\ child_of(n, d) # n
             /\ heap[0].tiles[n].link = "dead_end"
             /\ heap[0].tiles[child_of(n, d)].link = "dead_end") =>
                heap[0].edges[<<n, child_of(n, d)>>] = "absent"

\* C21: after the construction of the Solver from a puzzle without wrap, the
\* edge between the two ends of every column and of every row is absent.
C21_BorderEdgesAbsent ==
    (pc = "solver" /\ ~puzzle.wrap) =>
        /\ \A x \in 0 .. solver.columns - 1 :
               /\ heap[0].edges[<<<<x, 0>>, <<x, solver.rows - 1>>>>] = "absent"
               /\ heap[0].edges[<<<<x, solver.rows - 1>>, <<x, 0>>>>] = "absent"
        /\ \A y \in 0 .. solver.rows - 1 :
               /\ heap[0].edges[<<<<0, y>>, <<solver.columns - 1, y>>>>] = "absent"
               /\ heap[0].edges[<<<<solver.columns - 1, y>>, <<0, y>>>>] = "absent"

\* A Solver was made of a puzzle without wrap, three columns wide or more,
\* and an edge inside the grid is still unknown.
C21_Witness ==
    /\ pc = "solver"
    /\ ~puzzle.wrap
    /\ solver.columns >= 3
    /\ heap[0].edges[<<<<0, 0>>, <<1, 0>>>>] = "unknown"

\* C22: after the construction of the Solver, the edge of every wall is
\* absent: the edge between the wall's position and its neighbor below for
\* a horizontal wall, its neighbor to the left for a vertical wall, the
\* neighbor taken modulo the size of the grid.
C22_WallEdgesAbsent ==
    pc = "solver" =>
        \A w \in puzzle.walls :
            LET d == IF w.orientation = "horizontal" THEN "down" ELSE "left"
            IN  /\ heap[0].edges[<<w.position, child_of(w.position, d)>>] = "absent"
                /\ heap[0].edges[<<child_of(w.position, d), w.position>>] = "absent"

\* A Solver was made of a puzzle with wrap, three rows high, that has a
\* horizontal wall in row 0: the neighbor below is in the top row.
C22_Witness ==
    /\ pc = "solver"
    /\ puzzle.wrap
    /\ solver.rows >= 3
    /\ \E w \in puzzle.walls : w.orientation = "horizontal" /\ w.position[2] = 0
    /\ heap[0].edges[<<<<0, 0>>, <<0, 1>>>>] = "unknown"

\* An orientation of the tile at a node agrees with the edges of a state
\* around the node: it has an arm where the edge is present and none where
\* the edge is absent.
agrees(node, o, state) ==
    \A d \in Direction :
        LET arm == tile_connectors(state.tiles[node].link, o)[index(d) + 1]
            e == state.edges[<<node, child_of(node, d)>>]
        IN  (e = "present" => arm) /\ (e = "absent" => ~arm)

\* What _inspect_tile(node, before) has to leave in the state after: the
\* orientations of the node that agree with the edges, in their order; the
\* other tiles as they were; in each direction the edge present when every
\* orientation left has the arm, absent when none has it, and as it was
\* when they differ or none is left; every edge away from the node as it was.
inspected(node, before, after) ==
    LET prev == before.tiles[node].possible_orientations
        kept == after.tiles[node].possible_orientations
        arms(d) == {tile_connectors(before.tiles[node].link, o)[index(d) + 1] :
                       o \in Range(kept)}
    IN  /\ kept = SelectSeq(prev, LAMBDA o : agrees(node, o, before))
        /\ \A n \in DOMAIN before.tiles : n # node => after.tiles[n] = before.tiles[n]
        /\ after.tiles[node].link = before.tiles[node].link
        /\ \A d \in Direction :
               LET k == <<node, child_of(node, d)>>
               IN  after.edges[k] =
                       IF arms(d) = {TRUE} THEN "present"
                       ELSE IF arms(d) = {FALSE} THEN "absent"
                       ELSE before.edges[k]
        /\ \A k \in DOMAIN before.edges :
               (k[1] # node /\ k[2] # node) => after.edges[k] = before.edges[k]
        /\ DOMAIN after.edges = DOMAIN before.edges

\* C23: when _inspect_tile returns, the node's domain holds exactly the
\* orientations of its previous domain that agree with the known edges
\* around it, each edge on which the orientations left agree is present or
\* absent as they say, and the other edges are as they were.  This is so
\* for the call forward inference makes on a node of its work list and for
\* the calls the branching makes on each child state.
C23_InspectTile ==
    /\ (pc = "infer" /\ item.work # << >>) =>
           LET pos == Head(item.work)
               state == heap[item.state]
               r == inspect_tile(pos, state)
           IN  (Len(state.tiles[pos].possible_orientations) > 1 /\ r.ok) =>
                   inspected(pos, state, r.state)
    /\ pc = "branch" =>
           LET state == heap[item.state]
               found == min_scan(state, 1, 0, << >>)
           IN  found # << >> =>
                   \A k \in 1 .. Len(state.tiles[found[1]].possible_orientations) :
                       LET child_state == [clone(state) EXCEPT
                               !.tiles[found[1]].possible_orientations =
                                   <<state.tiles[found[1]].possible_orientations[k]>>]
                           r == inspect_tile(found[1], child_state)
                       IN  r.ok => inspected(found[1], child_state, r.state)

\* Forward inference is about to inspect a node of which the inspection
\* removes an orientation, leaves two or more, and sets an edge that was
\* unknown.
C23_Witness ==
    /\ pc = "infer"
    /\ item.work # << >>
    /\ LET pos == Head(item.work)
           state == heap[item.state]
           r == inspect_tile(pos, state)
       IN  /\ r.ok
           /\ Len(r.state.tiles[pos].possible_orientations) >= 2
           /\ Len(r.state.tiles[pos].possible_orientations) <
                  Len(state.tiles[pos].possible_orientations)
           /\ \E d \in Direction :
                  /\ state.edges[<<pos, child_of(pos, d)>>] = "unknown"
                  /\ r.state.edges[<<pos, child_of(pos, d)>>] # "unknown"

\* The number of orientations a state has left for a node.
size(state, n) == Len(state.tiles[n].possible_orientations)

\* The place of a node in the enumeration of the grid.
place(n) ==
    CHOOSE i \in 1 .. solver.columns * solver.rows :
        GridOrder(solver.columns, solver.rows)[i] = n

\* C24: a state in which a node has no orientation left is not chosen for
\* branching and is not recorded as a solution.
C24_EmptyDomainDiscarded ==
    /\ pc = "branch" =>
           \A n \in DOMAIN heap[item.state].tiles : size(heap[item.state], n) > 0
    /\ \A i \in 1 .. Len(solver.solutions) :
           \A n \in DOMAIN heap[solver.solutions[i]].tiles :
               size(heap[solver.solutions[i]], n) > 0

\* Among the nodes with two orientations or more, n has the fewest, and is
\* the first of those in the enumeration of the grid.
smallest_first(state, n) ==
    /\ size(state, n) >= 2
    /\ \A m \in DOMAIN state.tiles :
           size(state, m) >= 2 =>
               \/ size(state, n) < size(state, m)
               \/ size(state, n) = size(state, m) /\ place(n) <= place(m)

tree_arms ==
    {x \in (DOMAIN builder.nodes) \X Direction : builder.nodes[x[1]][index(x[2]) + 1]}

\* What is left of a set of nodes when the nodes with at most one arm into
\* the set are taken away, again and again: nothing, unless the edges
\* between the nodes close a cycle.
RECURSIVE pruned(_)
pruned(S) ==
    LET leaves == {n \in S :
                      Cardinality({d \in Direction :
                          /\ builder.nodes[n][index(d) + 1]
                          /\ tree_child(n, d) \in S}) <= 1}
    IN  IF leaves = {} THEN S ELSE pruned(S \ leaves)

\* The nodes the tree has taken in: the visited ones while it grows, all of
\* them once _create_tree has returned.
taken_in ==
    IF pc = "tree" THEN {n \in DOMAIN builder.nodes : visited[n]}
    ELSE DOMAIN builder.nodes

\* The edges of the Builder are a tree on the nodes taken in: each edge is
\* recorded at both ends, there is one edge less than nodes, no cycle, and
\* every node taken in is reached from the source; when _create_tree has
\* returned there are columns * rows - 1 edges.
tree_shape ==
    builder.nodes # << >> =>
        /\ \A x \in (DOMAIN builder.nodes) \X Direction :
               tree_child(x[1], x[2]) \in DOMAIN builder.nodes =>
                   (builder.nodes[x[1]][index(x[2]) + 1] <=>
                        builder.nodes[tree_child(x[1], x[2])][index(neg(x[2])) + 1])
        /\ \A x \in tree_arms : tree_child(x[1], x[2]) \in DOMAIN builder.nodes
        /\ Cardinality(tree_arms) = 2 * (Cardinality(taken_in) - 1)
        /\ pruned(DOMAIN builder.nodes) = {}
        /\ tree_reach({builder.source}) = taken_in
        /\ pc # "tree" =>
               Cardinality(tree_arms) = 2 * (builder.columns * builder.rows - 1)

\* A step of the loop of _create_tree adds one edge, from a visited node to
\* a node that was not visited, and marks that node visited.
tree_grows ==
    (pc = "tree" /\ pc' = "tree") =>
        \E parent \in DOMAIN builder.nodes : \E d \in Direction :
            LET child == tree_child(parent, d)
            IN  /\ visited[parent]
                /\ child \in DOMAIN builder.nodes
                /\ ~visited[child]
                /\ visited' = [visited EXCEPT ![child] = TRUE]
                /\ builder'.nodes =
                       [builder.nodes EXCEPT ![parent][index(d) + 1] = TRUE,
                                             ![child][index(neg(d)) + 1] = TRUE]

\* C27: the edges _create_tree grows are a tree at every step, each step
\* adds one edge to one node not visited before, recorded at both ends, and
\* the finished tree has columns * rows - 1 edges.
C27_TreeEdges == []tree_shape /\ [][tree_grows]_vars

\* The tree of a 2x2 grid with wrap is finished: each node has the same
\* neighbor on either side.
C27_Witness ==
    /\ pc = "walls"
    /\ builder.wrap
    /\ builder.columns = 2
    /\ builder.rows = 2

\* C29: a node's orientations only get fewer along a branch: no step of a
\* run adds an orientation to a node of a state, and a child state has, for
\* every node, orientations of its parent state only.
C29_DomainsShrink ==
    [][/\ (pc \in {"solver", "loop", "infer", "branch"} /\ pc' # "solver") =>
              \A id \in DOMAIN heap \cap DOMAIN heap' :
                  \A n \in DOMAIN heap[id].tiles :
                      Range(heap'[id].tiles[n].possible_orientations) \subseteq
                          Range(heap[id].tiles[n].possible_orientations)
       /\ (pc = "branch" /\ pc' = "loop") =>
              \A i \in Len(work_stack) + 1 .. Len(work_stack') :
                  \A n \in DOMAIN heap[item.state].tiles :
                      Range(heap'[work_stack'[i].state].tiles[n].possible_orientations)
                          \subseteq
                          Range(heap[item.state].tiles[n].possible_orientations)]_vars

\* The weight of the first i elements.
cumulative(weights, i) == sum(SubSeq(weights, 1, i))

\* The place of the element weighted_choice has to return for a draw r: the
\* last one when r is the total, else the first whose cumulative weight
\* exceeds r.
chosen_place(weights, r) ==
    IF r = sum(weights) THEN Len(weights)
    ELSE CHOOSE i \in 1 .. Len(weights) :
            /\ cumulative(weights, i) > r
            /\ \A j \in 1 .. i - 1 : cumulative(weights, j) <= r

\* C30: for a sequence that is not empty, with as many weights, and every
\* draw r in [0, total]: when r < total the scan stops inside the sequence,
\* at the first element whose cumulative weight exceeds r, which has a
\* positive weight; when r is the total (as when every weight is 0) the
\* last element is returned.  What a call returned is the element one of
\* the draws selects.
C30_WeightedChoice ==
    (/\ call.op = "weighted_choice"
     /\ Len(call.args[1]) > 0
     /\ Len(call.args[1]) = Len(call.args[2])) =>
        LET sequence == call.args[1]
            weights == call.args[2]
            total == sum(weights)
        IN  /\ \A r \in 0 .. total - 1 :
                   LET i == weighted_scan(weights, r, 0)
                   IN  /\ 1 <= i /\ i <= Len(sequence)
                       /\ i = chosen_place(weights, r)
                       /\ weights[i] > 0
                       /\ weighted_choice(sequence, weights, r) = sequence[i]
            /\ weighted_choice(sequence, weights, total) = sequence[Len(sequence)]
            /\ pc = "returned" =>
                   /\ call.ret.kind = "value"
                   /\ \E r \in 0 .. total :
                          call.ret.value = sequence[chosen_place(weights, r)]
                   /\ total = 0 => call.ret.value = sequence[Len(sequence)]

\* weighted_choice([A, B, A], [0, 2, 0]) has returned B: the elements of
\* weight 0 before and after it were passed over.
C30_Witness ==
    /\ pc = "returned"
    /\ call.op = "weighted_choice"
    /\ call.args = <<<<"A", "B", "A">>, <<0, 2, 0>>>>
    /\ call.ret = [kind |-> "value", value |-> "B"]

\* No step of a run changes a state other than the one it is processing,
\* branching changes no state at all, and the child made for an orientation
\* is what the parent and that orientation alone give: a copy of the parent
\* with the node set to the orientation, inspected.
states_independent ==
    /\ pc \in {"loop", "infer"} =>
           \A id \in (DOMAIN heap \cap DOMAIN heap') \ {item.state} :
               heap'[id] = heap[id]
    /\ pc = "branch" =>
           \A id \in DOMAIN heap \cap DOMAIN heap' : heap'[id] = heap[id]
    /\ (pc = "branch" /\ pc' = "loop") =>
           \E n \in DOMAIN heap[item.state].tiles :
               LET parent == heap[item.state]
                   os == parent.tiles[n].possible_orientations
               IN  /\ Len(os) >= 2
                   /\ Len(work_stack') = Len(work_stack) + Len(os)
                   /\ \A k \in 1 .. Len(os) :
                          heap'[work_stack'[Len(work_stack) + k].state] =
                              inspect_tile(n, [clone(parent) EXCEPT
                                  !.tiles[n].possible_orientations = <<os[k]>>]).state

\* Two runs on the same puzzle that both returned have recorded the same
\* set of solutions.
same_solutions ==
    (/\ Len(results) = 2
     /\ results[1].error = "None"
     /\ results[2].error = "None") =>
        Range(results[1].solutions) = Range(results[2].solutions)

candidates ==
    {a \in [DOMAIN puzzle.grid -> Direction] :
        \A n \in DOMAIN puzzle.grid :
            a[n] \in Range(default_orientations(puzzle.grid[n].link))}

\* The tile at n has an arm in direction d under the assignment a.
arm(a, n, d) == tile_connectors(puzzle.grid[n].link, a[n])[index(d) + 1]

\* The neighbor of a node of the puzzle in a direction, around the border.
next_to(n, d) == normalize(add(n, vector(d)), puzzle.columns, puzzle.rows)

\* The nodes reached from the set S along the arms of the assignment a.
RECURSIVE arm_reach(_, _)
arm_reach(S, a) ==
    LET T == S \cup {next_to(x[1], x[2]) : x \in
                        {x \in S \X Direction : arm(a, x[1], x[2])}}
    IN  IF T = S THEN S ELSE arm_reach(T, a)

\* The assignment a solves the puzzle: arms meet arms, no arm crosses a wall
\* or, without wrap, the border, and every tile is reached from the source.
solves(a) ==
    /\ \A n \in DOMAIN puzzle.grid : \A d \in Direction :
           arm(a, n, d) = arm(a, next_to(n, d), neg(d))
    /\ \A w \in puzzle.walls :
           LET d == IF w.orientation = "horizontal" THEN "down" ELSE "left"
           IN  ~arm(a, w.position, d) /\ ~arm(a, next_to(w.position, d), neg(d))
    /\ ~puzzle.wrap =>
           \A n \in DOMAIN puzzle.grid : \A d \in Direction :
               ~valid(add(n, vector(d)), puzzle.columns, puzzle.rows, FALSE) =>
                   ~arm(a, n, d)
    /\ arm_reach({puzzle.source}, a) = DOMAIN puzzle.grid

\* The orientation lists a recorded solution holds for the nodes.
recorded(i) ==
    [n \in DOMAIN puzzle.grid |->
        heap[solver.solutions[i]].tiles[n].possible_orientations]

\* C31: when Solver.run has returned on a puzzle the Builder generated, the
\* solutions recorded are the assignments that solve the puzzle, each of
\* them recorded once.
C31_Completeness ==
    (pc = "done" /\ builder # NoBuilder) =>
        /\ \A i, j \in 1 .. Len(solver.solutions) :
               recorded(i) = recorded(j) => i = j
        /\ {recorded(i) : i \in 1 .. Len(solver.solutions)} =
               {[n \in DOMAIN puzzle.grid |-> <<a[n]>>] : a \in {c \in candidates : solves(c)}}

\* A wall of the puzzle lies between the nodes n and m.
walled(n, m) ==
    \E w \in puzzle.walls :
        LET d == IF w.orientation = "horizontal" THEN "down" ELSE "left"
        IN  {w.position, next_to(w.position, d)} = {n, m}

\* C32: after the construction of the Solver, the edge between two adjacent
\* tiles of the grid (with wrap, also around the border) is unknown unless
\* a wall lies between them or both are dead ends.
C32_OtherEdgesUnknown ==
    pc = "solver" =>
        \A n \in DOMAIN puzzle.grid : \A d \in Direction :
            LET m == next_to(n, d)
            IN  (/\ puzzle.wrap \/ valid(add(n, vector(d)), puzzle.columns, puzzle.rows, FALSE)
                 /\ ~walled(n, m)
                 /\ ~(puzzle.grid[n].link = "dead_end" /\ puzzle.grid[m].link = "dead_end")) =>
                    heap[0].edges[<<n, m>>] = "unknown"

\* C33: the clone the run makes of a state to branch on has, for every
\* node, the link type and the orientations of the state, and its edges.
C33_ClonePreserves ==
    (pc = "branch" /\ min_scan(heap[item.state], 1, 0, << >>) # << >>) =>
        LET state == heap[item.state]
        IN  /\ \A n \in DOMAIN state.tiles :
                   /\ clone(state).tiles[n].link = state.tiles[n].link
                   /\ clone(state).tiles[n].possible_orientations =
                          state.tiles[n].possible_orientations
            /\ clone(state).edges = state.edges

\* C35: a state that forward inference hands to the branching code has a
\* node with two orientations or more, so "assert minimum is not None"
\* holds.
C35_BranchHasChoice ==
    pc = "branch" =>
        /\ \E n \in DOMAIN heap[item.state].tiles : size(heap[item.state], n) >= 2
        /\ min_scan(heap[item.state], 1, 0, << >>) # << >>

\* C36: when forward inference has emptied its work list, the inspection
\* of any node returns and changes nothing: neither an orientation nor an
\* edge.
C36_Fixpoint ==
    (pc = "infer" /\ item.work = << >>) =>
        \A n \in DOMAIN heap[item.state].tiles :
            inspect_tile(n, heap[item.state]) =
                [state |-> heap[item.state], ok |-> TRUE]

\* C34: when run has been called twice on one Solver, the solutions
\* recorded after the second call are those recorded after the first.
C34_RunRepeatable ==
    Len(results) = 2 => results[2].solutions = results[1].solutions

====
